---- MODULE Spec2Model ----
(***************************************************************************)
(* Model of the berryimu crate: the register-level protocol of the I2C and *)
(* SPI sensor readers (src/src/i2c.rs, src/src/spi.rs), the reconstruction *)
(* of signed axis values from raw bytes, and the integer and normalisation *)
(* steps of the tilt-compensated heading example.                          *)
(***************************************************************************)
EXTENDS Integers, Sequences, FiniteSets, TLC

VARIABLES
    kind,      \* which reader the current device was handed to ("none" before any)
    handle,    \* TRUE iff the constructor returned Ok(Self(dev)) and the value is alive
    result,    \* the Result variant of the last call: "none", "Ok", "Init", "Read", "Device"
    log,       \* bus transactions issued on the current device, in order
    resp,      \* what the device/transport answered during the last call
    sample,    \* the (x, y, z) of the last Ok read, << >> when the last call returned none
    reads,     \* number of read() calls made on the current handle
    pair,      \* <<low, high>>: two raw register bytes of one axis
    axis,      \* the axis values reconstructed from pair by each bus variant
    block,     \* six raw output-register bytes x_l, x_h, y_l, y_h, z_l, z_h
    triple,    \* the triples reconstructed from block by each bus variant
    norm,      \* outcome of the sum-of-squares expression of the heading example
    atan,      \* 180.0 * atan2(..) / PI, an f64, before normalisation
    heading    \* the emitted heading, an f64

protoVars == <<kind, handle, result, log, resp, sample, reads>>
pairVars == <<pair, axis>>
blockVars == <<block, triple, norm>>
headVars == <<atan, heading>>
vars == <<kind, handle, result, log, resp, sample, reads, pair, axis, block,
          triple, norm, atan, heading>>

Byte == 0..255

(***************************************************************************)
(* Register map and identity values.                                       *)
(***************************************************************************)
LSM6DSL_WHO_AM_I == 15
LSM6DSL_CTRL1_XL == 16
LSM6DSL_CTRL8_XL == 23
LSM6DSL_CTRL3_C == 18
LSM6DSL_OUTX_L_XL == 40
LIS3MDL_WHO_AM_I == 15
LIS3MDL_CTRL_REG1 == 32
LIS3MDL_CTRL_REG2 == 33
LIS3MDL_CTRL_REG3 == 34
LIS3MDL_OUT_X_L == 40
\* Referenced by spi.rs as crate::NAME; values of the LSM6DSL register map.
LSM6DSL_CTRL2_G == 17
LSM6DSL_OUTX_L_G == 34
LSM6DSL_OUTX_H_G == 35
LSM6DSL_OUTY_L_G == 36
LSM6DSL_OUTY_H_G == 37
LSM6DSL_OUTZ_L_G == 38
LSM6DSL_OUTZ_H_G == 39
LSM6DSL_OUTX_H_XL == 41
LSM6DSL_OUTY_L_XL == 42
LSM6DSL_OUTY_H_XL == 43
LSM6DSL_OUTZ_L_XL == 44
LSM6DSL_OUTZ_H_XL == 45

\* The identity values the constructors pass to init.
LSM6DSL_ID == 106
LIS3MDL_ID == 61

\* Number of bytes requested by read_block.
BLOCK_SIZE == 6

(***************************************************************************)
(* Bounds of the model.                                                    *)
(***************************************************************************)
MaxReads == 2       \* read() calls per handle
MaxBlockLen == 7    \* longest block the transport may hand back

Kinds == {"i2c_acc", "i2c_mag", "spi_acc", "spi_gyr"}
\* Register contents used in the protocol runs: n bytes all 0x00, all 0xFF, or
\* alternating 0x00, 0x80 (every axis -32768).
ProtoBytes == {0, 255}
ProtoData(n) ==
    {[i \in 1..n |-> b] : b \in ProtoBytes}
        \cup {[i \in 1..n |-> IF i % 2 = 0 THEN 128 ELSE 0]}

Txn(op, reg, val, ok) == [op |-> op, reg |-> reg, val |-> val, ok |-> ok]
Outcome(l, r, h, s) == [log |-> l, res |-> r, handle |-> h, sample |-> s]

(***************************************************************************)
(* Bit-level arithmetic of the axis reconstruction.                        *)
(***************************************************************************)
RECURSIVE BitOr(_, _)
BitOr(a, b) ==
    IF a = 0 THEN b
    ELSE IF b = 0 THEN a
    ELSE (IF a % 2 = 1 \/ b % 2 = 1 THEN 1 ELSE 0) + 2 * BitOr(a \div 2, b \div 2)

\* The 16-bit pattern of an i16 / the i16 a 16-bit pattern denotes.
Bits16(v) == IF v < 0 THEN v + 65536 ELSE v
AsI16(u) == IF u >= 32768 THEN u - 65536 ELSE u
\* `<<` on i16: bits shifted out of the 16-bit word are dropped.
ShlI16(v, n) == AsI16((Bits16(v) * (2 ^ n)) % 65536)
OrI16(a, b) == AsI16(BitOr(Bits16(a), Bits16(b)))

(***************************************************************************)
(* The device and transport as seen by one call: dev.id is the byte in the *)
(* identity register, dev.failAt the position (1-based) of the transaction *)
(* of this call that fails at the transport level (0: none fails), and     *)
(* dev.data the bytes the output registers / the block transaction return. *)
(***************************************************************************)
Dev(id, failAt, data) == [id |-> id, failAt |-> failAt, data |-> data]

(***************************************************************************)
(* src/src/i2c.rs                                                          *)
(***************************************************************************)
\* Variant: the identity byte is read but never compared.
i2c_init_unchecked(who_am_i, expected_response, dev) ==
    IF dev.failAt = 1
    THEN [log |-> <<Txn("read", who_am_i, 0, FALSE)>>, res |-> "Device"]
    ELSE [log |-> <<Txn("read", who_am_i, dev.id, TRUE)>>, res |-> "Ok"]

i2c_init(who_am_i, expected_response, dev) ==
    IF dev.failAt = 1
    THEN [log |-> <<Txn("read", who_am_i, 0, FALSE)>>, res |-> "Device"]
    ELSE [log |-> <<Txn("read", who_am_i, dev.id, TRUE)>>,
          res |-> IF dev.id = expected_response THEN "Ok" ELSE "Init"]

\* Variant: the results of the writes are dropped instead of propagated with `?`.
write_program_ignore_errors(prog, dev) ==
    [log |-> [j \in 1..Len(prog) |->
                Txn("write", prog[j][1], prog[j][2], j + 1 # dev.failAt)],
     res |-> "Ok"]

\* The chain `write(reg, value)?; ...` that follows init(..)? in a constructor:
\* the writes of prog in order, stopping at the first one that fails.
write_program(prog, dev) ==
    LET n == Len(prog)
        failed == dev.failAt \in 2..(n + 1)
        last == IF failed THEN dev.failAt - 1 ELSE n
    IN  [log |-> [j \in 1..last |->
                    Txn("write", prog[j][1], prog[j][2], j + 1 # dev.failAt)],
         res |-> IF failed THEN "Device" ELSE "Ok"]

\* init(..)?; writes?; Ok(Self(dev))
construct(i, prog, dev) ==
    IF i.res # "Ok"
    THEN Outcome(i.log, i.res, FALSE, << >>)
    ELSE LET w == write_program(prog, dev)
         IN  Outcome(i.log \o w.log, w.res, w.res = "Ok", << >>)

I2cAccelerometerNew(dev) ==
    construct(i2c_init(LSM6DSL_WHO_AM_I, LSM6DSL_ID, dev),
              << <<LSM6DSL_CTRL1_XL, 159>>,
                 <<LSM6DSL_CTRL8_XL, 200>>,
                 <<LSM6DSL_CTRL3_C, 68>> >>, dev)

I2cMagnetometerNew(dev) ==
    construct(i2c_init(LIS3MDL_WHO_AM_I, LIS3MDL_ID, dev),
              << <<LIS3MDL_CTRL_REG1, 220>>,
                 <<LIS3MDL_CTRL_REG2, 32>>,
                 <<LIS3MDL_CTRL_REG3, 0>> >>, dev)

\* Variant: the length check is `<` instead of `!=`.
read_block_lt(command, size, dev) ==
    IF dev.failAt = 1
    THEN [log |-> <<Txn("block", command, size, FALSE)>>, res |-> "Device",
          block |-> << >>]
    ELSE IF Len(dev.data) < size
    THEN [log |-> <<Txn("block", command, size, TRUE)>>, res |-> "Read",
          block |-> << >>]
    ELSE [log |-> <<Txn("block", command, size, TRUE)>>, res |-> "Ok",
          block |-> dev.data]

read_block(command, size, dev) ==
    IF dev.failAt = 1
    THEN [log |-> <<Txn("block", command, size, FALSE)>>, res |-> "Device",
          block |-> << >>]
    ELSE IF Len(dev.data) # size
    THEN [log |-> <<Txn("block", command, size, TRUE)>>, res |-> "Read",
          block |-> << >>]
    ELSE [log |-> <<Txn("block", command, size, TRUE)>>, res |-> "Ok",
          block |-> dev.data]

\* Variant: the bytes are widened to i32 before they are combined.
I2cAxis_widened_first(l, h) == BitOr(l, h * 256)

\* ((block[0] as i16) | (block[1] as i16) << 8) as i32
I2cAxis(l, h) == OrI16(l, ShlI16(h, 8))

I2cCombine(b) ==
    IF b.res # "Ok"
    THEN Outcome(b.log, b.res, TRUE, << >>)
    ELSE Outcome(b.log, "Ok", TRUE,
                 <<I2cAxis(b.block[1], b.block[2]),
                   I2cAxis(b.block[3], b.block[4]),
                   I2cAxis(b.block[5], b.block[6])>>)

I2cAccelerometerRead(dev) == I2cCombine(read_block(LSM6DSL_OUTX_L_XL, BLOCK_SIZE, dev))

I2cMagnetometerRead(dev) == I2cCombine(read_block(LIS3MDL_OUT_X_L, BLOCK_SIZE, dev))

(***************************************************************************)
(* src/src/spi.rs                                                          *)
(***************************************************************************)
\* The k-th transaction of the call reads register reg_address.
read_reg(reg_address, k, dev) ==
    IF dev.failAt = k
    THEN [log |-> <<Txn("read", reg_address, 0, FALSE)>>, res |-> "Device", val |-> 0]
    ELSE [log |-> <<Txn("read", reg_address, 0, TRUE)>>, res |-> "Ok",
          val |-> dev.data[k]]

\* Variant: the sign threshold is off by one (`<=` instead of `<`).
SpiAxis_off_by_one(acc_l, acc_h) ==
    LET acc_combined == BitOr(acc_l, (acc_h * 256) % 65536)
    IN  IF acc_combined <= 32768 THEN acc_combined ELSE acc_combined - 65536

\* acc_combined as u16, then the explicit two's-complement adjustment.
SpiAxis(acc_l, acc_h) ==
    LET acc_combined == BitOr(acc_l, (acc_h * 256) % 65536)
    IN  IF acc_combined < 32768 THEN acc_combined ELSE acc_combined - 65536

read_axis(l_reg_address, h_reg_address, k, dev) ==
    LET acc_l == read_reg(l_reg_address, k, dev)
        acc_h == read_reg(h_reg_address, k + 1, dev)
    IN  IF acc_l.res # "Ok" THEN [log |-> acc_l.log, res |-> "Device", val |-> 0]
        ELSE IF acc_h.res # "Ok"
        THEN [log |-> acc_l.log \o acc_h.log, res |-> "Device", val |-> 0]
        ELSE [log |-> acc_l.log \o acc_h.log, res |-> "Ok",
              val |-> SpiAxis(acc_l.val, acc_h.val)]

spi_init(who_am_i, expected_response, dev) ==
    IF dev.failAt = 1
    THEN [log |-> <<Txn("read", who_am_i, 0, FALSE)>>, res |-> "Device"]
    ELSE [log |-> <<Txn("read", who_am_i, dev.id, TRUE)>>,
          res |-> IF dev.id = expected_response THEN "Ok" ELSE "Init"]

\* Variant: the block-data-update write is issued first.
SpiAccelerometerNew_reordered(dev) ==
    construct(spi_init(LSM6DSL_WHO_AM_I, LSM6DSL_ID, dev),
              << <<LSM6DSL_CTRL3_C, 68>>,
                 <<LSM6DSL_CTRL1_XL, 159>>,
                 <<LSM6DSL_CTRL8_XL, 200>> >>, dev)

SpiAccelerometerNew(dev) ==
    construct(spi_init(LSM6DSL_WHO_AM_I, LSM6DSL_ID, dev),
              << <<LSM6DSL_CTRL1_XL, 159>>,
                 <<LSM6DSL_CTRL8_XL, 200>>,
                 <<LSM6DSL_CTRL3_C, 68>> >>, dev)

\* Gyroscope::new passes the LIS3MDL identity register and value to init.
SpiGyroscopeNew(dev) ==
    construct(spi_init(LIS3MDL_WHO_AM_I, LIS3MDL_ID, dev),
              << <<LSM6DSL_CTRL2_G, 156>> >>, dev)

\* Variant: a failed axis is replaced by 0 and the remaining axes are still read.
SpiRead_partial(regs, dev) ==
    LET x == read_axis(regs[1], regs[2], 1, dev)
        y == read_axis(regs[3], regs[4], 3, dev)
        z == read_axis(regs[5], regs[6], 5, dev)
    IN  Outcome(x.log \o y.log \o z.log, "Ok", TRUE, <<x.val, y.val, z.val>>)

\* let x = read_axis(..)?; let y = read_axis(..)?; let z = read_axis(..)?; Ok((x, y, z))
SpiRead(regs, dev) ==
    LET x == read_axis(regs[1], regs[2], 1, dev)
        y == read_axis(regs[3], regs[4], 3, dev)
        z == read_axis(regs[5], regs[6], 5, dev)
    IN  IF x.res # "Ok" THEN Outcome(x.log, x.res, TRUE, << >>)
        ELSE IF y.res # "Ok" THEN Outcome(x.log \o y.log, y.res, TRUE, << >>)
        ELSE IF z.res # "Ok" THEN Outcome(x.log \o y.log \o z.log, z.res, TRUE, << >>)
        ELSE Outcome(x.log \o y.log \o z.log, "Ok", TRUE, <<x.val, y.val, z.val>>)

SpiAccelerometerRead(dev) ==
    SpiRead(<<LSM6DSL_OUTX_L_XL, LSM6DSL_OUTX_H_XL, LSM6DSL_OUTY_L_XL,
              LSM6DSL_OUTY_H_XL, LSM6DSL_OUTZ_L_XL, LSM6DSL_OUTZ_H_XL>>, dev)

SpiGyroscopeRead(dev) ==
    SpiRead(<<LSM6DSL_OUTX_L_G, LSM6DSL_OUTX_H_G, LSM6DSL_OUTY_L_G,
              LSM6DSL_OUTY_H_G, LSM6DSL_OUTZ_L_G, LSM6DSL_OUTZ_H_G>>, dev)

(***************************************************************************)
(* src/examples/tilt_compensating_heading_on_linux_i2c.rs                   *)
(***************************************************************************)
I32_MAX == 2147483647

\* i32 `a + b` as the build computes it: with overflow checks (debug) the
\* addition panics, without them (release) it wraps modulo 2^32.
AddI32(a, b, profile) ==
    IF a.outcome = "panic" \/ b.outcome = "panic"
    THEN [outcome |-> "panic", value |-> 0]
    ELSE IF b.value > 0 /\ a.value > I32_MAX - b.value
    THEN IF profile = "debug"
         THEN [outcome |-> "panic", value |-> 0]
         ELSE [outcome |-> "value",
               value |-> (a.value - I32_MAX - 1) + (b.value - I32_MAX - 1)]
    ELSE IF b.value < 0 /\ a.value < (-I32_MAX - 1) - b.value
    THEN IF profile = "debug"
         THEN [outcome |-> "panic", value |-> 0]
         ELSE [outcome |-> "value",
               value |-> (a.value + I32_MAX + 1) + (b.value + I32_MAX + 1)]
    ELSE [outcome |-> "value", value |-> a.value + b.value]

\* i32 `a * a` for an axis value a in [-32768, 32767]: at most 2^30, never overflows.
SquareI32(a) == [outcome |-> "value", value |-> a * a]

\* acc_x * acc_x + acc_y * acc_y + acc_z * acc_z
SumOfSquares(acc, profile) ==
    AddI32(AddI32(SquareI32(acc[1]), SquareI32(acc[2]), profile),
           SquareI32(acc[3]), profile)

(***************************************************************************)
(* f64 values of the heading normalisation.  A value is whole + m * 2^-k   *)
(* degrees with whole in {0, 360}; what atan2 yields has whole = 0.        *)
(***************************************************************************)
F64_FRACTION_BITS == 52      \* explicit significand bits of an f64

F64(whole, m, k) == [whole |-> whole, m |-> m, k |-> k]

\* Round n / 2^sh to the nearest integer, ties to even (n >= 0, sh >= 1).
RoundHalfEven(n, sh) ==
    LET q == n \div (2 ^ sh)
        r == n % (2 ^ sh)
        half == 2 ^ (sh - 1)
    IN  IF r < half THEN q
        ELSE IF r > half THEN q + 1
        ELSE IF q % 2 = 0 THEN q ELSE q + 1

\* f64 `h + 360.0` for -180 <= h < 0: the exact sum 360 - a * 2^-k lies in
\* [180, 360) and is rounded to the f64 grid of its binade, whose spacing is
\* 2^(8 - 52) in [256, 512) and 2^(7 - 52) in [128, 256).
F64Add360(h) ==
    LET a == 0 - h.m
        high == h.k >= 24 \/ a <= 104 * (2 ^ h.k)
        e == IF high THEN F64_FRACTION_BITS - 8 ELSE F64_FRACTION_BITS - 7
    IN  IF h.k <= e
        THEN F64(360, h.m, h.k)
        ELSE F64(360, 0 - RoundHalfEven(a, h.k - e), e)

\* if heading < 0.0 { heading += 360.0; }
NormalizeHeading(h) == IF h.m < 0 THEN F64Add360(h) ELSE h

(***************************************************************************)
(* State machine of the protocol layer: a device is handed to one of the   *)
(* four constructors; while the handle lives, read() may be called on it.  *)
(***************************************************************************)
IdleProto ==
    /\ kind = "none" /\ handle = FALSE /\ result = "none" /\ log = << >>
    /\ resp = Dev(0, 0, << >>) /\ sample = << >> /\ reads = 0
IdlePair == pair = <<0, 0>> /\ axis = [i2c |-> << >>, spi |-> << >>]
IdleBlock ==
    /\ block = << >> /\ triple = [i2c |-> << >>, spi |-> << >>]
    /\ norm = [state |-> "none"]
IdleHead == atan = F64(0, 0, 0) /\ heading = << >>

\* A constructor consumes a fresh device: the log starts over with it.
Constructed(k, dev, o) ==
    /\ kind' = k
    /\ handle' = o.handle
    /\ result' = o.res
    /\ log' = o.log
    /\ resp' = dev
    /\ sample' = << >>
    /\ reads' = 0
    /\ UNCHANGED <<pairVars, blockVars, headVars>>

\* read(&mut self) on the live handle.
ReadDone(dev, o) ==
    /\ handle' = o.handle
    /\ result' = o.res
    /\ log' = log \o o.log
    /\ resp' = dev
    /\ sample' = o.sample
    /\ reads' = reads + 1
    /\ UNCHANGED <<kind, pairVars, blockVars, headVars>>

NewI2cAccelerometer ==
    /\ kind = "none"
    /\ \E id \in Byte, f \in 0..4 :
        Constructed("i2c_acc", Dev(id, f, << >>), I2cAccelerometerNew(Dev(id, f, << >>)))

NewI2cMagnetometer ==
    /\ kind = "none"
    /\ \E id \in Byte, f \in 0..4 :
        Constructed("i2c_mag", Dev(id, f, << >>), I2cMagnetometerNew(Dev(id, f, << >>)))

NewSpiAccelerometer ==
    /\ kind = "none"
    /\ \E id \in Byte, f \in 0..4 :
        Constructed("spi_acc", Dev(id, f, << >>), SpiAccelerometerNew(Dev(id, f, << >>)))

NewSpiGyroscope ==
    /\ kind = "none"
    /\ \E id \in Byte, f \in 0..2 :
        Constructed("spi_gyr", Dev(id, f, << >>), SpiGyroscopeNew(Dev(id, f, << >>)))

ReadI2cAccelerometer ==
    /\ kind = "i2c_acc" /\ handle /\ reads < MaxReads
    /\ \E f \in 0..1, n \in 0..MaxBlockLen : \E data \in ProtoData(n) :
           ReadDone(Dev(0, f, data), I2cAccelerometerRead(Dev(0, f, data)))

ReadI2cMagnetometer ==
    /\ kind = "i2c_mag" /\ handle /\ reads < MaxReads
    /\ \E f \in 0..1, n \in 0..MaxBlockLen : \E data \in ProtoData(n) :
           ReadDone(Dev(0, f, data), I2cMagnetometerRead(Dev(0, f, data)))

ReadSpiAccelerometer ==
    /\ kind = "spi_acc" /\ handle /\ reads < MaxReads
    /\ \E f \in 0..6, data \in ProtoData(6) :
           ReadDone(Dev(0, f, data), SpiAccelerometerRead(Dev(0, f, data)))

ReadSpiGyroscope ==
    /\ kind = "spi_gyr" /\ handle /\ reads < MaxReads
    /\ \E f \in 0..6, data \in ProtoData(6) :
           ReadDone(Dev(0, f, data), SpiGyroscopeRead(Dev(0, f, data)))

\* The reader (or the error) of the current device goes out of scope; the next
\* constructor call gets another device.
Drop ==
    /\ kind # "none"
    /\ kind' = "none" /\ handle' = FALSE /\ result' = "none" /\ log' = << >>
    /\ resp' = Dev(0, 0, << >>) /\ sample' = << >> /\ reads' = 0
    /\ UNCHANGED <<pairVars, blockVars, headVars>>

Init == IdleProto /\ IdlePair /\ IdleBlock /\ IdleHead

Next ==
    \/ NewI2cAccelerometer
    \/ NewI2cMagnetometer
    \/ NewSpiAccelerometer
    \/ NewSpiGyroscope
    \/ ReadI2cAccelerometer
    \/ ReadI2cMagnetometer
    \/ ReadSpiAccelerometer
    \/ ReadSpiGyroscope
    \/ Drop

Spec == Init /\ [][Next]_vars

(***************************************************************************)
(* Axis reconstruction on every pair of raw bytes.                         *)
(***************************************************************************)
InitAxis == IdleProto /\ IdleBlock /\ IdleHead /\ pair \in Byte \X Byte
            /\ axis = [i2c |-> << >>, spi |-> << >>]

ReconstructI2c ==
    /\ axis.i2c = << >>
    /\ axis' = [axis EXCEPT !.i2c = <<I2cAxis(pair[1], pair[2])>>]
    /\ UNCHANGED <<protoVars, pair, blockVars, headVars>>

ReconstructSpi ==
    /\ axis.spi = << >>
    /\ axis' = [axis EXCEPT !.spi = <<SpiAxis(pair[1], pair[2])>>]
    /\ UNCHANGED <<protoVars, pair, blockVars, headVars>>

NextAxis == ReconstructI2c \/ ReconstructSpi

SpecAxis == InitAxis /\ [][NextAxis]_vars

(***************************************************************************)
(* One sample of six output-register bytes, read through either bus, and   *)
(* the heading example's sum of squares on the accelerometer triple.       *)
(***************************************************************************)
SampleBytes == {0, 1, 127, 128, 255}
Profiles == {"debug", "release"}

InitBlock == IdleProto /\ IdlePair /\ IdleHead /\ block \in [1..6 -> SampleBytes]
             /\ triple = [i2c |-> << >>, spi |-> << >>] /\ norm = [state |-> "none"]

BlockReadI2c ==
    /\ triple.i2c = << >>
    /\ triple' = [triple EXCEPT !.i2c = I2cAccelerometerRead(Dev(0, 0, block)).sample]
    /\ UNCHANGED <<protoVars, pairVars, block, norm, headVars>>

BlockReadSpi ==
    /\ triple.spi = << >>
    /\ triple' = [triple EXCEPT !.spi = SpiAccelerometerRead(Dev(0, 0, block)).sample]
    /\ UNCHANGED <<protoVars, pairVars, block, norm, headVars>>

\* The loop body of the example up to the norm, on the triple accelerometer.read()
\* returned, under either build profile.
HeadingStep ==
    /\ triple.i2c # << >> /\ norm.state = "none"
    /\ \E profile \in Profiles :
           norm' = [state |-> "done", profile |-> profile,
                    sum |-> SumOfSquares(triple.i2c, profile)]
    /\ UNCHANGED <<protoVars, pairVars, block, triple, headVars>>

NextBlock == BlockReadI2c \/ BlockReadSpi \/ HeadingStep

SpecBlock == InitBlock /\ [][NextBlock]_vars

(***************************************************************************)
(* Heading normalisation on f64 values m * 2^-k in [-180, 180].            *)
(***************************************************************************)
MaxMant == 180
MaxExp == 48

AtanDegrees ==
    {F64(0, m, k) : m \in (0 - MaxMant)..MaxMant, k \in 0..MaxExp}

InRange(h) == h.k >= 23 \/ (h.m <= 180 * (2 ^ h.k) /\ 0 - h.m <= 180 * (2 ^ h.k))

InitHeading == IdleProto /\ IdlePair /\ IdleBlock
               /\ atan \in {h \in AtanDegrees : InRange(h)} /\ heading = << >>

EmitHeading ==
    /\ heading = << >>
    /\ heading' = <<NormalizeHeading(atan)>>
    /\ UNCHANGED <<protoVars, pairVars, blockVars, atan>>

NextHeading == EmitHeading

SpecHeading == InitHeading /\ [][NextHeading]_vars

(***************************************************************************)
(* Properties.                                                             *)
(***************************************************************************)
I2cKinds == {"i2c_acc", "i2c_mag"}
SpiKinds == {"spi_acc", "spi_gyr"}

\* The identity value each constructor is configured with.
ConfiguredIdentity(k) ==
    CASE k = "i2c_acc" -> 106
      [] k = "i2c_mag" -> 61
      [] k = "spi_acc" -> 106
      [] k = "spi_gyr" -> 61

\* The configuration program of each reader, in the order it must reach the bus.
ConfigurationProgram(k) ==
    CASE k \in {"i2c_acc", "spi_acc"} -> << <<16, 159>>, <<23, 200>>, <<18, 68>> >>
      [] k = "i2c_mag" -> << <<32, 220>>, <<33, 32>>, <<34, 0>> >>
      [] k = "spi_gyr" -> << <<17, 156>> >>

\* The output registers an SPI read visits: x_low, x_high, y_low, y_high, z_low, z_high.
OutputRegisters(k) ==
    IF k = "spi_acc"
    THEN <<LSM6DSL_OUTX_L_XL, LSM6DSL_OUTX_H_XL, LSM6DSL_OUTY_L_XL,
           LSM6DSL_OUTY_H_XL, LSM6DSL_OUTZ_L_XL, LSM6DSL_OUTZ_H_XL>>
    ELSE <<LSM6DSL_OUTX_L_G, LSM6DSL_OUTX_H_G, LSM6DSL_OUTY_L_G,
           LSM6DSL_OUTY_H_G, LSM6DSL_OUTZ_L_G, LSM6DSL_OUTZ_H_G>>

WritesIssued == {i \in 1..Len(log) : log[i].op = "write"}
IdentityReads == {i \in 1..Len(log) : log[i].op = "read" /\ log[i].reg = 15}
OutputReads == {i \in 1..Len(log) : log[i].op = "block"
                                    \/ (log[i].op = "read" /\ log[i].reg # 15)}
JustConstructed == kind \in Kinds /\ reads = 0

\* C1: for each of the four constructors, when the device answers the identity
\* read with a byte other than the configured one, the constructor returns
\* Error::Init, no handle exists, and no configuration write was issued.
C1_IdentityMismatch ==
    (JustConstructed /\ resp.failAt # 1 /\ resp.id # ConfiguredIdentity(kind))
        => (result = "Init" /\ ~handle /\ WritesIssued = {})

C1_Witness ==
    /\ JustConstructed /\ resp.failAt = 0 /\ resp.id # ConfiguredIdentity(kind)
    /\ kind = "i2c_acc" /\ result = "Init" /\ Len(log) = 1 /\ log[1].ok

\* C2: spi Gyroscope::new accepts exactly the devices spi Accelerometer::new
\* accepts: it reads the same identity register and succeeds (transport
\* permitting) iff the identity byte is the LSM6DSL identity 0x6A.
C2_GyroscopeSharesIdentity ==
    (kind = "spi_gyr" /\ reads = 0 /\ resp.failAt = 0)
        => (log[1].reg = LSM6DSL_WHO_AM_I /\ (result = "Ok" <=> resp.id = 106))

\* C3: an I2C read whose block transaction succeeds but hands back a number of
\* bytes other than the 6 requested returns Error::Read and no axis triple.
C3_ShortRead ==
    (kind \in I2cKinds /\ reads > 0 /\ resp.failAt = 0 /\ Len(resp.data) # 6)
        => (result = "Read" /\ sample = << >>)

C3_Witness ==
    /\ kind \in I2cKinds /\ reads > 0 /\ resp.failAt = 0 /\ Len(resp.data) = 5
    /\ result = "Read" /\ sample = << >>

\* C4: the triple the I2C block read reconstructs from six register bytes equals
\* the triple the SPI read reconstructs from the same six bytes.
C4_BlockEqualsDiscrete ==
    (triple.i2c # << >> /\ triple.spi # << >>) => triple.i2c = triple.spi

C4_Witness ==
    /\ triple.i2c # << >> /\ triple.spi # << >>
    /\ block = <<0, 128, 255, 255, 255, 127>>
    /\ triple.i2c = <<-32768, -1, 32767>>

\* The 16-bit two's-complement value of two raw bytes, by plain arithmetic.
TwosComplement16(low, high) ==
    LET combined == low + 256 * high
    IN  IF combined < 32768 THEN combined ELSE combined - 65536

C5_AxisOk(a) ==
    a # << >> =>
        /\ a[1] = TwosComplement16(pair[1], pair[2])
        /\ a[1] >= -32768 /\ a[1] <= 32767
        /\ (pair = <<255, 127>> => a[1] = 32767)
        /\ (pair = <<0, 128>> => a[1] = -32768)

\* C5: every reconstructed axis value is the 16-bit two's-complement reading of
\* low | (high << 8): the combined value below 32768, the combined value minus
\* 65536 otherwise; it lies in [-32768, 32767]; (0xFF, 0x7F) gives 32767 and
\* (0x00, 0x80) gives -32768.
C5_TwosComplement == C5_AxisOk(axis.spi) /\ C5_AxisOk(axis.i2c)

C5_Witness == pair = <<0, 128>> /\ axis.spi = <<-32768>> /\ axis.i2c = <<-32768>>

\* C6: when the identity read or a configuration write fails at the transport
\* level, the constructor returns Error::Device, no handle exists, the failed
\* transaction is the last one on the bus (no retry, no further write), and no
\* read is ever made on the device.
C6_TransportAbort ==
    /\ (JustConstructed /\ \E i \in 1..Len(log) : ~log[i].ok)
           => /\ result = "Device" /\ ~handle
              /\ \A i \in 1..Len(log) : ~log[i].ok <=> i = Len(log)
              /\ Len(log) = resp.failAt
    /\ ~handle => (reads = 0 /\ OutputReads = {})

C6_Witness ==
    /\ kind = "i2c_acc" /\ reads = 0 /\ resp.failAt = 3 /\ resp.id = 106
    /\ result = "Device" /\ ~handle /\ Len(log) = 3 /\ ~log[3].ok

\* C7: a handle exists only after exactly one identity read that matched,
\* followed by every write of the reader's configuration program, in order and
\* successful; output registers are read only after the last of these writes.
C7_ConfiguredBeforeRead ==
    (handle \/ OutputReads # {}) =>
        LET prog == ConfigurationProgram(kind)
            n == Len(prog)
        IN  /\ handle
            /\ Len(log) >= n + 1
            /\ log[1] = Txn("read", 15, ConfiguredIdentity(kind), TRUE)
            /\ IdentityReads = {1}
            /\ \A j \in 1..n : log[j + 1] = Txn("write", prog[j][1], prog[j][2], TRUE)
            /\ WritesIssued = 2..(n + 1)
            /\ OutputReads = (n + 2)..Len(log)

C7_Witness ==
    /\ kind = "spi_acc" /\ handle /\ reads = 1 /\ result = "Ok" /\ Len(log) = 10
    /\ log[4] = Txn("write", LSM6DSL_CTRL3_C, 68, TRUE)

\* One step of the protocol layer, when it is an SPI read whose k-th transaction fails.
C8_SpiReadStep ==
    (kind \in SpiKinds /\ reads' = reads + 1 /\ resp'.failAt \in 1..6) =>
        LET k == resp'.failAt
        IN  /\ result' = "Device" /\ sample' = << >> /\ handle'
            /\ Len(log') = Len(log) + k
            /\ \A j \in 1..k :
                   log'[Len(log) + j] = Txn("read", OutputRegisters(kind)[j], 0, j # k)
            /\ \A i \in 1..Len(log) : log'[i] = log[i]

\* C8: an SPI read in which the k-th of the six register transactions fails
\* returns Error::Device and no axis value, has issued exactly the first k
\* register reads in order (none after the failure, none repeated), and leaves
\* the handle alive.
C8_SpiReadFailure == [][C8_SpiReadStep]_vars

C8_Witness ==
    /\ kind = "spi_acc" /\ handle /\ reads = 2 /\ resp.failAt = 4
    /\ result = "Device" /\ sample = << >>

\* C9: the i32 sum of squares of the accelerometer triple in the heading step
\* never overflows: the step does not panic and the sum is the true sum.
C9_NormFitsI32 ==
    norm.state = "done" =>
        /\ norm.sum.outcome = "value"
        /\ norm.sum.value >= 0
        /\ norm.sum.value - triple.i2c[1] * triple.i2c[1]
             - triple.i2c[2] * triple.i2c[2] = triple.i2c[3] * triple.i2c[3]

\* The f64 h lies in [180, 360).
InHalfOpen180To360(h) ==
    /\ h.whole = 360 /\ h.m < 0
    /\ (h.k >= 23 \/ 0 - h.m <= 180 * (2 ^ h.k))

\* C10: a negative atan2 result in degrees is emitted plus 360 and lies in
\* [180, 360); a non-negative one is emitted unchanged; the heading is in [0, 360).
C10_HeadingRange ==
    heading # << >> =>
        IF atan.m < 0 THEN InHalfOpen180To360(heading[1]) ELSE heading[1] = atan

====
